---- MODULE Spec2Model ----
(***************************************************************************)
(* GitToys: the git-operations layer (GitService) and the requests the     *)
(* bulk commit panel and the extension commands make against it.           *)
(*                                                                         *)
(* The repository is the one shared resource: a working tree, an index     *)
(* (staging area) and a commit history.  Every GitService operation is an  *)
(* async function; an invocation runs synchronously up to its first await  *)
(* and then one action per awaited backend call (the backend effect and    *)
(* the continuation up to the next await).  Invocations of different       *)
(* requests interleave at their awaits.                                    *)
(***************************************************************************)
EXTENDS Integers, Sequences, FiniteSets, TLC

\* ---------------------------------------------------------------- bounds
Files == {"a.txt", "b.txt", "c.txt"}
MaxTasks == 3
MaxInvocations == 2
MaxChanges == 2
MaxAhead == 2
MaxLen == 2
MaxCommits == 5
MaxOpens == 3
MaxBusyCommits == 1
MaxRequests == 2
\* The characters commit messages and templates are written with.
Letters == {"f", "x"}
\* The status codes the change lists are drawn from.
ListedStatuses == {"MODIFIED", "DELETED", "INDEX_ADDED", "BOTH_MODIFIED"}

Invocations == 1..MaxInvocations

VARIABLES
  bound,        \* getActiveRepository() yields a repository
  workingTree,  \* repository.state.workingTreeChanges (paths)
  index,        \* repository.state.indexChanges (paths)
  history,      \* commits of the current branch, oldest first
  inv,          \* the invocations of GitService operations
  query,        \* one call of a synchronous read: its arguments and its value
  panel,        \* BulkCommitPanel: currentPanel, one commitFiles request, the
                \* messages posted to the webview, the notifications shown
  webview,      \* BulkCommitApp.state: files, selectedFiles, commitMessages
  server        \* the portable server: currentRepoPath and one commit request

vars == <<bound, workingTree, index, history, inv, query, panel, webview, server>>

\* ------------------------------------------------------------ data model
CommitTask(f, m) == [filePath |-> f, message |-> m]

\* The commit message the user typed for a file.
MessageFor(f) == CASE f = "a.txt" -> "fix a" [] f = "b.txt" -> "add b" [] OTHER -> "drop c"

Tasks == {CommitTask(f, MessageFor(f)) : f \in Files}

\* The files that may be staged before any request.
StagedAtStart == {"c.txt"}

\* The commits the branch holds before any request.
InitialCommit == [message |-> "earlier work", files |-> {"a.txt"}]

InitialHistories == {<<>>, <<InitialCommit>>}

TaskLists == UNION {[1..n -> Tasks] : n \in 0..MaxTasks}

\* The backend work one invocation asks for: its tasks, or its one file or
\* commit.
Work(r) == IF r.op = "none" THEN 0 ELSE IF r.op = "bulkCommit" THEN Len(r.tasks) ELSE 1

RECURSIVE TotalWork(_, _)
TotalWork(f, S) ==
  IF S = {} THEN 0
  ELSE LET x == CHOOSE y \in S : TRUE IN Work(f[x]) + TotalWork(f, S \ {x})

NoRepositoryFound == "No repository found"
StageFailure == "stage failed"
CommitFailure == "commit failed"
NothingToCommit == "nothing to commit"
NoCommitsToUndo == "No commits to undo"
LogFailure == "log failed"
ResetFailure == "reset failed"

CommitResultOk(task) ==
  [success |-> TRUE, filePath |-> task.filePath, message |-> task.message, error |-> ""]

CommitResultFailed(task, errorMessage) ==
  [success |-> FALSE, filePath |-> task.filePath, message |-> task.message,
   error |-> errorMessage]

BulkCommitResult(tasks) ==
  [successful |-> <<>>, failed |-> <<>>, totalCommits |-> Len(tasks)]

\* ------------------------------------------------------- the git backend
\* repository.add([path]): the path's working-tree change moves to the index.
RepoAdd(repo, f) ==
  IF f \in repo.workingTree
  THEN [repo EXCEPT !.workingTree = @ \ {f}, !.index = @ \cup {f}]
  ELSE repo

\* repository.revert([path]): the path's staged change goes back to the
\* working tree.
RepoRevert(repo, f) ==
  IF f \in repo.index
  THEN [repo EXCEPT !.index = @ \ {f}, !.workingTree = @ \cup {f}]
  ELSE repo

\* repository.commit(message): one new commit holding everything staged.
RepoCommit(repo, message) ==
  [repo EXCEPT !.history = Append(@, [message |-> message, files |-> repo.index]),
               !.index = {}]

\* git.undoCommit: soft reset of the last commit, its changes return to the
\* index.
RepoUndoCommit(repo) ==
  [repo EXCEPT !.history = SubSeq(@, 1, Len(@) - 1),
               !.index = @ \cup repo.history[Len(repo.history)].files]

Repo == [workingTree |-> workingTree, index |-> index, history |-> history]

\* The paths of the changed-files list, from which a stage or unstage
\* request takes its file.
ChangedFiles == workingTree \cup index

SetRepo(repo) ==
  /\ workingTree' = repo.workingTree
  /\ index' = repo.index
  /\ history' = repo.history

\* No read is being followed.
NoQuery == [op |-> "none"]

\* ------------------------------------------------------------ invocations
Idle ==
  [op |-> "none", pc |-> "idle", tasks |-> <<>>, i |-> 0,
   result |-> BulkCommitResult(<<>>), outcome |-> "none", error |-> "",
   calls |-> <<>>, file |-> "", before |-> {}]

Call(op, task, ok, files) == [op |-> op, task |-> task, ok |-> ok, files |-> files]

\* Invocations start in slot order.
NextSlot(h) ==
  /\ inv[h].pc = "idle"
  /\ \A g \in Invocations : g < h => inv[g].pc # "idle"
  /\ h > 1 => \E g \in Invocations : inv[g].pc \notin {"idle", "done"}

\* A lone invocation takes any task list; invocations that share the run
\* ask for one file each on average.
HasRoom(n) ==
  \/ \A g \in Invocations : inv[g].pc = "idle"
  \/ TotalWork(inv, Invocations) + n <= MaxInvocations

InFlight(h) == inv[h].pc \notin {"idle", "done"}

\* -------------------------------------------------- GitService.bulkCommit
pushSuccessful_Unshift(result, task) ==
  [result EXCEPT !.successful = <<CommitResultOk(task)>> \o @]

pushSuccessful(result, task) ==
  [result EXCEPT !.successful = Append(@, CommitResultOk(task))]

pushFailed_Dropped(result, task, errorMessage) == result

pushFailed(result, task, errorMessage) ==
  [result EXCEPT !.failed = Append(@, CommitResultFailed(task, errorMessage))]

\* The for-of loop: the position after task i, or the return.
LoopNext(r) ==
  IF r.i < Len(r.tasks)
  THEN [r EXCEPT !.i = @ + 1, !.pc = "add"]
  ELSE [r EXCEPT !.pc = "done", !.outcome = "returned"]

CatchTaskError_Abort(r, errorMessage) ==
  [r EXCEPT !.result = pushFailed(@, r.tasks[r.i], errorMessage),
            !.pc = "done", !.outcome = "returned"]

CatchTaskError_Rethrow(r, errorMessage) ==
  [r EXCEPT !.pc = "done", !.outcome = "thrown", !.error = errorMessage]

CatchTaskError_Cancel(r, errorMessage) ==
  [r EXCEPT !.result = pushFailed(@, r.tasks[r.i], errorMessage), !.pc = "cancelled"]

CatchTaskError_Retry(r, errorMessage) ==
  IF Cardinality({p \in 1..Len(r.calls) : r.calls[p].op = "add" /\ r.calls[p].task = r.i}) < 2
  THEN [r EXCEPT !.pc = "add"]
  ELSE LoopNext([r EXCEPT !.result = pushFailed(@, r.tasks[r.i], errorMessage)])

\* The catch block of one task: record and go on with the next file.
CatchTaskError(r, errorMessage) ==
  LoopNext([r EXCEPT !.result = pushFailed(@, r.tasks[r.i], errorMessage)])

bulkCommitEnter_NoCheck(r, tasks, repository, idx) ==
  LoopNext([r EXCEPT !.op = "bulkCommit", !.tasks = tasks, !.before = idx,
                     !.result = BulkCommitResult(tasks), !.i = 0])

\* The repository check at the head of bulkCommit, then the loop entry.
bulkCommitEnter(r, tasks, repository, idx) ==
  IF ~repository
  THEN [r EXCEPT !.op = "bulkCommit", !.tasks = tasks, !.before = idx,
                 !.pc = "done", !.outcome = "thrown", !.error = NoRepositoryFound]
  ELSE LoopNext([r EXCEPT !.op = "bulkCommit", !.tasks = tasks, !.before = idx,
                          !.result = BulkCommitResult(tasks), !.i = 0])

BulkCommitCall(h) ==
  /\ NextSlot(h)
  /\ \E n \in 0..MaxTasks :
       /\ HasRoom(n)
       /\ n = 0 => h = 1
       /\ \E tasks \in [1..n -> Tasks] :
            inv' = [inv EXCEPT ![h] = bulkCommitEnter(@, tasks, bound, index)]
  /\ UNCHANGED <<bound, workingTree, index, history, query, panel, webview, server>>

commitArgument_Path(task) == task.filePath

\* The message handed to repository.commit for a task.
commitArgument(task) == task.message

\* await repository.add([task.filePath])
BulkCommitAdd(h) ==
  /\ inv[h].op = "bulkCommit"
  /\ inv[h].pc = "add"
  /\ LET r == inv[h]
         task == r.tasks[r.i]
     IN \/ /\ SetRepo(RepoAdd(Repo, task.filePath))
           /\ inv' = [inv EXCEPT ![h] =
                [r EXCEPT !.pc = "commit",
                          !.calls = Append(@, Call("add", r.i, TRUE,
                             RepoAdd(Repo, task.filePath).index \cap {task.filePath}))]]
        \/ /\ UNCHANGED <<workingTree, index, history>>
           /\ inv' = [inv EXCEPT ![h] =
                CatchTaskError([r EXCEPT !.calls =
                                  Append(@, Call("add", r.i, FALSE, {}))],
                               StageFailure)]
  /\ UNCHANGED <<bound, query, panel, webview, server>>

\* await repository.commit(task.message)
BulkCommitCommit(h) ==
  /\ inv[h].op = "bulkCommit"
  /\ inv[h].pc = "commit"
  /\ LET r == inv[h]
         task == r.tasks[r.i]
     IN \/ /\ index # {}
           /\ SetRepo(RepoCommit(Repo, commitArgument(task)))
           /\ inv' = [inv EXCEPT ![h] =
                LoopNext([r EXCEPT
                  !.result = pushSuccessful(@, task),
                  !.calls = Append(@, Call("commit", r.i, TRUE, index))])]
        \/ /\ UNCHANGED <<workingTree, index, history>>
           /\ inv' = [inv EXCEPT ![h] =
                CatchTaskError([r EXCEPT !.calls =
                                  Append(@, Call("commit", r.i, FALSE, {}))],
                               IF index = {} THEN NothingToCommit ELSE CommitFailure)]
  /\ UNCHANGED <<bound, query, panel, webview, server>>

\* -------------------------------- GitService.stageFiles / unstageFiles
\* The repository check, then the pending add or revert.
stageFilesEnter(r, op, f, repository) ==
  IF ~repository
  THEN [r EXCEPT !.op = op, !.file = f, !.pc = "done", !.outcome = "thrown",
                 !.error = NoRepositoryFound]
  ELSE [r EXCEPT !.op = op, !.file = f, !.pc = "await"]

StageFileCall(h) ==
  /\ NextSlot(h)
  /\ HasRoom(1)
  /\ \E f \in ChangedFiles :
       inv' = [inv EXCEPT ![h] = stageFilesEnter(@, "stageFiles", f, bound)]
  /\ UNCHANGED <<bound, workingTree, index, history, query, panel, webview, server>>

UnstageFileCall(h) ==
  /\ NextSlot(h)
  /\ HasRoom(1)
  /\ \E f \in ChangedFiles :
       inv' = [inv EXCEPT ![h] = stageFilesEnter(@, "unstageFiles", f, bound)]
  /\ UNCHANGED <<bound, workingTree, index, history, query, panel, webview, server>>

\* await repository.add(filePaths)
StageFileAdd(h) ==
  /\ inv[h].op = "stageFiles"
  /\ inv[h].pc = "await"
  /\ LET r == inv[h]
     IN \/ /\ SetRepo(RepoAdd(Repo, r.file))
           /\ inv' = [inv EXCEPT ![h] =
                [r EXCEPT !.pc = "done", !.outcome = "returned",
                          !.calls = Append(@, Call("add", 0, TRUE, {r.file}))]]
        \/ /\ UNCHANGED <<workingTree, index, history>>
           /\ inv' = [inv EXCEPT ![h] =
                [r EXCEPT !.pc = "done", !.outcome = "thrown", !.error = StageFailure,
                          !.calls = Append(@, Call("add", 0, FALSE, {}))]]
  /\ UNCHANGED <<bound, query, panel, webview, server>>

\* await repository.revert(filePaths)
UnstageFileRevert(h) ==
  /\ inv[h].op = "unstageFiles"
  /\ inv[h].pc = "await"
  /\ LET r == inv[h]
     IN \/ /\ SetRepo(RepoRevert(Repo, r.file))
           /\ inv' = [inv EXCEPT ![h] =
                [r EXCEPT !.pc = "done", !.outcome = "returned",
                          !.calls = Append(@, Call("revert", 0, TRUE, {r.file}))]]
        \/ /\ UNCHANGED <<workingTree, index, history>>
           /\ inv' = [inv EXCEPT ![h] =
                [r EXCEPT !.pc = "done", !.outcome = "thrown", !.error = StageFailure,
                          !.calls = Append(@, Call("revert", 0, FALSE, {}))]]
  /\ UNCHANGED <<bound, query, panel, webview, server>>

\* ----------------------------------------------- GitService.undoLastCommit
UndoFailed(r, errorMessage) ==
  [r EXCEPT !.pc = "done", !.outcome = "failure", !.error = errorMessage]

undoLastCommitEnter(r, repository) ==
  IF ~repository
  THEN UndoFailed([r EXCEPT !.op = "undoLastCommit"], NoRepositoryFound)
  ELSE [r EXCEPT !.op = "undoLastCommit", !.pc = "log"]

UndoCall(h) ==
  /\ NextSlot(h)
  /\ HasRoom(1)
  /\ inv' = [inv EXCEPT ![h] = undoLastCommitEnter(@, bound)]
  /\ UNCHANGED <<bound, workingTree, index, history, query, panel, webview, server>>

undoAfterLog_NoEmptyCheck(r, log) ==
  [r EXCEPT !.pc = "reset"]

\* if (log.length === 0) return { success: false, error: 'No commits to undo' }
undoAfterLog(r, log) ==
  IF Len(log) = 0
  THEN UndoFailed(r, NoCommitsToUndo)
  ELSE [r EXCEPT !.pc = "reset"]

catchUndoError_ResetAnyway(repo) ==
  IF Len(repo.history) = 0 THEN repo ELSE RepoUndoCommit(repo)

\* The catch block of undoLastCommit: it builds the failure value and makes
\* no repository call.
catchUndoError(repo) == repo

\* repository.log({ maxEntries: 1 }): the newest commit, if there is one.
RepoLog(repo) ==
  IF Len(repo.history) = 0 THEN <<>> ELSE <<repo.history[Len(repo.history)]>>

\* await repository.log({ maxEntries: 1 })
UndoLog(h) ==
  /\ inv[h].op = "undoLastCommit"
  /\ inv[h].pc = "log"
  /\ LET r == inv[h]
     IN \/ /\ inv' = [inv EXCEPT ![h] =
                undoAfterLog([r EXCEPT !.calls = Append(@, Call("log", 0, TRUE, {}))],
                             RepoLog(Repo))]
           /\ UNCHANGED <<workingTree, index, history>>
        \/ /\ inv' = [inv EXCEPT ![h] =
                UndoFailed([r EXCEPT !.calls = Append(@, Call("log", 0, FALSE, {}))],
                           LogFailure)]
           /\ SetRepo(catchUndoError(Repo))
  /\ UNCHANGED <<bound, query, panel, webview, server>>

\* await vscode.commands.executeCommand('git.undoCommit'): the command resets
\* the last commit, returns without resetting when HEAD has no commit, or
\* rejects; undoLastCommit returns { success: true } whenever it resolves.
UndoReset(h) ==
  /\ inv[h].op = "undoLastCommit"
  /\ inv[h].pc = "reset"
  /\ LET r == inv[h]
     IN \/ /\ SetRepo(IF Len(history) = 0 THEN Repo ELSE RepoUndoCommit(Repo))
           /\ inv' = [inv EXCEPT ![h] =
                [r EXCEPT !.pc = "done", !.outcome = "success",
                          !.calls = Append(@, Call("reset", 0, TRUE,
                             IF Len(history) = 0 THEN {} ELSE history[Len(history)].files))]]
        \/ /\ SetRepo(catchUndoError(Repo))
           /\ inv' = [inv EXCEPT ![h] =
                UndoFailed([r EXCEPT !.calls = Append(@, Call("reset", 0, FALSE, {}))],
                           ResetFailure)]
  /\ UNCHANGED <<bound, query, panel, webview, server>>

\* ------------------------------------------------- BulkCommitApp (webview)
\* The texts a commit message input holds.
InputTexts == {"", "fix"}

\* commitMessages is a Map: here a function on the paths that have an entry.
NoMessages == [path \in {} |-> ""]

\* The state the constructor builds; deselected remembers the listed files
\* whose checkbox the user cleared last.
NoWebview ==
  [files |-> {}, selectedFiles |-> {}, commitMessages |-> NoMessages,
   deselected |-> {}, last |-> [type |-> "none"]]

handleChangedFiles_KeepMessages(w, files) ==
  [w EXCEPT !.files = files,
            !.selectedFiles =
               (@ \cup {path \in files : path \notin DOMAIN w.commitMessages}) \cap files,
            !.deselected = @ \cap files,
            !.last = [type |-> "changedFiles", files |-> files]]

\* case 'changedFiles': auto-select, then drop the selections and messages
\* of files that are not listed.
handleChangedFiles(w, files) ==
  [w EXCEPT !.files = files,
            !.selectedFiles =
               (@ \cup {path \in files : path \notin DOMAIN w.commitMessages}) \cap files,
            !.commitMessages = [path \in DOMAIN @ \cap files |-> @[path]],
            !.deselected = @ \cap files,
            !.last = [type |-> "changedFiles", files |-> files]]

handleCommitResult_ClearAlways(w, result) ==
  [w EXCEPT !.commitMessages = NoMessages, !.selectedFiles = {},
            !.last = [type |-> "commitResult", result |-> result]]

\* case 'commitResult'
handleCommitResult(w, result) ==
  IF result.successful > 0
  THEN [w EXCEPT !.commitMessages = NoMessages, !.selectedFiles = {},
                 !.last = [type |-> "commitResult", result |-> result]]
  ELSE [w EXCEPT !.last = [type |-> "commitResult", result |-> result]]

\* The change listener of a file checkbox.
toggleFile(w, path, checked) ==
  [w EXCEPT !.selectedFiles = IF checked THEN @ \cup {path} ELSE @ \ {path},
            !.deselected = IF checked THEN @ \ {path} ELSE @ \cup {path},
            !.last = [type |-> "checkbox", path |-> path, checked |-> checked]]

\* The input listener of a commit message field.
inputMessage(w, path, text) ==
  [w EXCEPT !.commitMessages =
               [q \in DOMAIN @ \cup {path} |-> IF q = path THEN text ELSE @[q]],
            !.last = [type |-> "input", path |-> path, text |-> text]]

WebviewChangedFiles ==
  /\ \E files \in SUBSET Files : webview' = handleChangedFiles(webview, files)
  /\ UNCHANGED <<bound, workingTree, index, history, inv, query, panel, server>>

WebviewCommitResult ==
  /\ \E successful \in 0..1, failed \in 0..1 :
       webview' = handleCommitResult(webview,
                    [successful |-> successful, failed |-> failed,
                     total |-> successful + failed])
  /\ UNCHANGED <<bound, workingTree, index, history, inv, query, panel, server>>

\* Only the files of the list are rendered.
WebviewCheckbox ==
  /\ \E path \in webview.files, checked \in BOOLEAN :
       webview' = toggleFile(webview, path, checked)
  /\ UNCHANGED <<bound, workingTree, index, history, inv, query, panel, server>>

WebviewInput ==
  /\ \E path \in webview.files, text \in InputTexts :
       webview' = inputMessage(webview, path, text)
  /\ UNCHANGED <<bound, workingTree, index, history, inv, query, panel, server>>

\* ------------------------------------------------------- portable server
\* The directories requests name: two repositories, a directory without
\* .git, and a path that does not exist.
GitRepositories == {"/repo1", "/repo2"}
ExistingPaths == GitRepositories \cup {"/plain"}
RequestPaths == ExistingPaths \cup {"/nowhere"}

\* let currentRepoPath = process.cwd(), and no request in flight. commands is
\* the list of git commands started, each with the directory it runs in;
\* startPath is currentRepoPath as it was when POST /api/commit began.
NoServer ==
  [currentRepoPath |-> "/repo1", pc |-> "idle", commits |-> 0, i |-> 0,
   startPath |-> "", commands |-> <<>>,
   results |-> [successful |-> 0, failed |-> 0], responses |-> <<>>]

\* runGit(command): cwd defaults to currentRepoPath, read when the call is made.
runGit(s, command) ==
  [s EXCEPT !.commands = Append(@, [command |-> command, filePath |-> s.i,
                                     cwd |-> s.currentRepoPath])]

\* Whether the command last started can succeed: runGit rejects outside a
\* git repository, and git itself may fail anywhere.
runGitOutcomes(s) ==
  IF s.commands[Len(s.commands)].cwd \in GitRepositories THEN BOOLEAN ELSE {FALSE}

\* The head of the for loop: start the add of the next commit, or respond.
serverLoopNext(s) ==
  IF s.i < s.commits
  THEN runGit([s EXCEPT !.i = @ + 1, !.pc = "add"], "add")
  ELSE [s EXCEPT !.pc = "done", !.responses = Append(@, s.results)]

serverCatch(s) ==
  serverLoopNext([s EXCEPT !.results.failed = @ + 1])

\* POST /api/commit up to the first await.
PostCommit ==
  /\ server.pc = "idle"
  /\ \E n \in 0..MaxTasks :
       server' = serverLoopNext([server EXCEPT !.commits = n, !.i = 0,
                                   !.startPath = server.currentRepoPath,
                                   !.results = [successful |-> 0, failed |-> 0]])
  /\ UNCHANGED <<bound, workingTree, index, history, inv, query, panel, webview>>

\* await runGit(`add ...`) settles.
ServerAdd ==
  /\ server.pc = "add"
  /\ \E ok \in runGitOutcomes(server) :
       server' = IF ok THEN runGit([server EXCEPT !.pc = "commit"], "commit")
                 ELSE serverCatch(server)
  /\ UNCHANGED <<bound, workingTree, index, history, inv, query, panel, webview>>

\* await runGit(`commit ...`) settles.
ServerCommit ==
  /\ server.pc = "commit"
  /\ \E ok \in runGitOutcomes(server) :
       server' = IF ok THEN serverLoopNext([server EXCEPT !.results.successful = @ + 1])
                 ELSE serverCatch(server)
  /\ UNCHANGED <<bound, workingTree, index, history, inv, query, panel, webview>>

\* POST /api/path
PostPath ==
  /\ \E repoPath \in RequestPaths :
       server' = IF repoPath \in ExistingPaths
                 THEN [server EXCEPT !.currentRepoPath = repoPath]
                 ELSE server
  /\ UNCHANGED <<bound, workingTree, index, history, inv, query, panel, webview>>


\* --------------------------------------------------------- BulkCommitPanel
\* The paths the webview lists, in the order it sends them.
PanelPaths == <<"a.txt", "b.txt", "c.txt", "d.txt", "e.txt", "f.txt", "g.txt", "h.txt">>

Blank == " "

\* The messages a commitFiles request carries: none, blanks only, a text.
PanelMessages == {<<>>, <<Blank>>, <<"f", "x">>}

\* The commits of one commitFiles message: one entry per selected path.
CommitLists ==
  UNION {{[k \in 1..n |-> CommitTask(PanelPaths[k], m[k])] : m \in [1..n -> PanelMessages]} :
           n \in 0..MaxCommits}

\* gittoys.bulkCommit.confirmBeforeCommit and .pushAfterCommit
Configurations == [confirmBeforeCommit : BOOLEAN, pushAfterCommit : BOOLEAN]

RECURSIVE trimStart(_)
trimStart(str) ==
  IF Len(str) > 0 /\ str[1] = Blank THEN trimStart(Tail(str)) ELSE str

RECURSIVE trimEnd(_)
trimEnd(str) ==
  IF Len(str) > 0 /\ str[Len(str)] = Blank
  THEN trimEnd(SubSeq(str, 1, Len(str) - 1))
  ELSE str

\* String.prototype.trim
trim(str) == trimEnd(trimStart(str))

hasMessage_LengthOnly(c) == Len(c.message) > 0

\* c => c.message.trim().length > 0
hasMessage(c) == Len(trim(c.message)) > 0

RECURSIVE filter(_)
\* commits.filter(hasMessage)
filter(commits) ==
  IF commits = <<>> THEN <<>>
  ELSE IF hasMessage(commits[1])
       THEN <<commits[1]>> \o filter(Tail(commits))
       ELSE filter(Tail(commits))

\* Messages to the webview and notifications to the user.
Message(type, payload) == [type |-> type, payload |-> payload]

Notice(kind, text) == [kind |-> kind, text |-> text]

postMessage(p, message) == [p EXCEPT !.posted = Append(@, message)]

show(p, notice) == [p EXCEPT !.shown = Append(@, notice)]

\* No panel is open.
NoPanel ==
  [currentPanel |-> 0, created |-> 0, live |-> {}, opens |-> 0,
   config |-> [confirmBeforeCommit |-> TRUE, pushAfterCommit |-> FALSE],
   pc |-> "idle", commits |-> <<>>, validCommits |-> <<>>, confirm |-> "none",
   posted |-> <<>>, pushes |-> <<>>, shown |-> <<>>,
   requests |-> 0, stage |-> "idle", rejections |-> 0]

\* The changedFiles message of _sendChangedFiles, between its two loading
\* messages.
sendChangedFiles(p, repository, repo) ==
  postMessage(
    postMessage(
      postMessage(p, Message("loading", TRUE)),
      Message("changedFiles",
              [files |-> IF repository THEN repo.workingTree \cup repo.index ELSE {},
               staged |-> IF repository THEN repo.index ELSE {},
               settings |-> p.config])),
    Message("loading", FALSE))

\* The reading of the repository threw: the catch block of _sendChangedFiles
\* between its two loading messages.
sendChangedFilesCaught(p, errorMsg) ==
  postMessage(
    postMessage(
      postMessage(p, Message("loading", TRUE)),
      Message("error", errorMsg)),
    Message("loading", FALSE))

createOrShow_AlwaysCreate(p, repository, repo) ==
  [p EXCEPT !.created = @ + 1, !.currentPanel = p.created + 1,
            !.live = @ \cup {p.created + 1}, !.opens = @ + 1]

\* BulkCommitPanel.createOrShow: reveal and refresh the panel there is, or
\* create one.
createOrShow(p, repository, repo) ==
  IF p.currentPanel # 0
  THEN sendChangedFiles([p EXCEPT !.opens = @ + 1], repository, repo)
  ELSE [p EXCEPT !.created = @ + 1, !.currentPanel = p.created + 1,
                 !.live = @ \cup {p.created + 1}, !.opens = @ + 1]

\* BulkCommitPanel.dispose
dispose(p) == [p EXCEPT !.currentPanel = 0, !.live = @ \ {p.currentPanel}]

commitFilesFinally_NoLoading(p) == [p EXCEPT !.pc = "done"]

\* The finally block of _commitFiles.
commitFilesFinally(p) == [postMessage(p, Message("loading", FALSE)) EXCEPT !.pc = "done"]

\* From the filter to the call of bulkCommit.
commitFilesFilter(p) ==
  LET validCommits == filter(p.commits)
  IN IF Len(validCommits) = 0
     THEN [show(p, Notice("warning", "All selected files need commit messages."))
             EXCEPT !.pc = "done"]
     ELSE [postMessage(p, Message("loading", TRUE))
             EXCEPT !.validCommits = validCommits, !.pc = "bulkCommit"]

\* The head of _commitFiles, up to the dialog or to the call of bulkCommit.
commitFilesEnter(p, commits) ==
  IF Len(commits) = 0
  THEN [show(p, Notice("warning", "No files selected for commit."))
          EXCEPT !.commits = commits, !.pc = "done"]
  ELSE IF p.config.confirmBeforeCommit
       THEN [p EXCEPT !.commits = commits, !.pc = "confirm"]
       ELSE commitFilesFilter([p EXCEPT !.commits = commits])

commitFilesConfirmed_AnyAnswer(p, confirm) ==
  commitFilesFilter([p EXCEPT !.confirm = confirm])

\* if (confirm !== 'Commit') return
commitFilesConfirmed(p, confirm) ==
  IF confirm # "Commit"
  THEN [p EXCEPT !.confirm = confirm, !.pc = "done"]
  ELSE commitFilesFilter([p EXCEPT !.confirm = confirm])

BulkCommitResultInfo_ErrorsOnly(result) ==
  [successful |-> Len(result.successful),
   failed |-> Len(result.failed),
   total |-> result.totalCommits,
   errors |-> [k \in 1..Len(result.failed) |-> <<result.failed[k].error>>]]

\* The counts and the "path: error" strings sent to the webview.
BulkCommitResultInfo(result) ==
  [successful |-> Len(result.successful),
   failed |-> Len(result.failed),
   total |-> result.totalCommits,
   errors |-> [k \in 1..Len(result.failed) |->
                 <<result.failed[k].filePath, ": ", result.failed[k].error>>]]

commitFilesAfterPush_RefreshOnSuccess(p, result) ==
  LET q == IF Len(result.failed) > 0
           THEN show(p, Notice("error", <<"Failed to commit", Len(result.failed)>>))
           ELSE p
  IN IF Len(result.successful) > 0 THEN [q EXCEPT !.pc = "refresh"] ELSE commitFilesFinally(q)

\* The failure notice, then the refresh of the file list.
commitFilesAfterPush(p, result) ==
  LET q == IF Len(result.failed) > 0
           THEN show(p, Notice("error", <<"Failed to commit", Len(result.failed)>>))
           ELSE p
  IN [q EXCEPT !.pc = "refresh"]

commitFilesAfterBatch_PushAlways(p, r) ==
  IF r.outcome = "thrown"
  THEN commitFilesFinally(show(postMessage(p, Message("error", r.error)),
                               Notice("error", r.error)))
  ELSE LET q == postMessage(p, Message("commitResult", BulkCommitResultInfo(r.result)))
       IN IF p.config.pushAfterCommit
          THEN [q EXCEPT !.pc = "push"]
          ELSE commitFilesAfterPush(q, r.result)

\* bulkCommit has settled: the catch block, or the commitResult message and
\* the way to the push.
commitFilesAfterBatch(p, r) ==
  IF r.outcome = "thrown"
  THEN commitFilesFinally(show(postMessage(p, Message("error", r.error)),
                               Notice("error", r.error)))
  ELSE LET q == postMessage(p, Message("commitResult", BulkCommitResultInfo(r.result)))
       IN IF Len(r.result.successful) > 0
          THEN LET q2 == show(q, Notice("info", <<"Successfully created",
                                                  Len(r.result.successful)>>))
               IN IF p.config.pushAfterCommit
                  THEN [q2 EXCEPT !.pc = "push"]
                  ELSE commitFilesAfterPush(q2, r.result)
          ELSE commitFilesAfterPush(q, r.result)

PushFailure == "push failed"

pushAfterCommit_AsBatchError(p, ok) ==
  IF ok
  THEN show([p EXCEPT !.pushes = Append(@, ok)], Notice("info", <<"Push successful">>))
  ELSE postMessage(show([p EXCEPT !.pushes = Append(@, ok)],
                        Notice("error", <<"Push failed", PushFailure>>)),
                   Message("error", PushFailure))

\* _pushAfterCommit: the outcome of gitService.push() is shown, not thrown.
pushAfterCommit(p, ok) ==
  IF ok
  THEN show([p EXCEPT !.pushes = Append(@, ok)], Notice("info", <<"Push successful">>))
  ELSE show([p EXCEPT !.pushes = Append(@, ok)],
            Notice("error", <<"Push failed", PushFailure>>))

\* The webview posts commitFiles; the handler runs to its first await.
PanelCommitFiles ==
  /\ panel.currentPanel # 0
  /\ panel.pc = "idle"
  /\ \E commits \in CommitLists :
       LET p == commitFilesEnter(panel, commits)
       IN /\ panel' = p
          /\ inv' = IF p.pc = "bulkCommit"
                    THEN [inv EXCEPT ![1] = bulkCommitEnter(@, p.validCommits, bound, index)]
                    ELSE inv
  /\ UNCHANGED <<bound, workingTree, index, history, query, webview, server>>

\* await vscode.window.showWarningMessage(..., { modal: true }, 'Commit')
PanelConfirm ==
  /\ panel.pc = "confirm"
  /\ \E confirm \in {"Commit", "dismissed"} :
       LET p == commitFilesConfirmed(panel, confirm)
       IN /\ panel' = p
          /\ inv' = IF p.pc = "bulkCommit"
                    THEN [inv EXCEPT ![1] = bulkCommitEnter(@, p.validCommits, bound, index)]
                    ELSE inv
  /\ UNCHANGED <<bound, workingTree, index, history, query, webview, server>>

\* await this._gitService.bulkCommit(validCommits) settles.
PanelBatchSettled ==
  /\ panel.pc = "bulkCommit"
  /\ inv[1].pc = "done"
  /\ panel' = commitFilesAfterBatch(panel, inv[1])
  /\ UNCHANGED <<bound, workingTree, index, history, inv, query, webview, server>>

\* await this._pushAfterCommit(): repository.push() resolves or rejects.
PanelPush ==
  /\ panel.pc = "push"
  /\ \E ok \in BOOLEAN :
       panel' = commitFilesAfterPush(pushAfterCommit(panel, ok), inv[1].result)
  /\ UNCHANGED <<bound, workingTree, index, history, inv, query, webview, server>>

\* await this._sendChangedFiles(), then the finally block.
PanelRefresh ==
  /\ panel.pc = "refresh"
  /\ panel' = commitFilesFinally(sendChangedFiles(panel, bound, Repo))
  /\ UNCHANGED <<bound, workingTree, index, history, inv, query, webview, server>>

ReadFailure == "cannot read repository state"

\* repo.state.onDidChange fires: the listener of the constructor calls
\* refresh(). The listener exists only if a repository was bound when the
\* panel was built, and dispose removes it.
RepositoryChanged ==
  /\ panel.currentPanel # 0
  /\ bound
  /\ panel.requests < MaxRequests
  /\ \E ok \in BOOLEAN :
       panel' = IF ok
                THEN sendChangedFiles([panel EXCEPT !.requests = @ + 1], bound, Repo)
                ELSE sendChangedFilesCaught([panel EXCEPT !.requests = @ + 1], ReadFailure)
  /\ UNCHANGED <<bound, workingTree, index, history, inv, query, webview, server>>

stageFileSettled_Reported(p, r, repository, repo) ==
  IF r.outcome = "thrown"
  THEN [postMessage(p, Message("error", r.error)) EXCEPT !.stage = "done"]
  ELSE [sendChangedFiles(p, repository, repo) EXCEPT !.stage = "done"]

\* case 'stageFile' / 'unstageFile' after the awaited call: a rejection
\* leaves _handleMessage uncaught, a return is followed by the refresh.
stageFileSettled(p, r, repository, repo) ==
  IF r.outcome = "thrown"
  THEN [p EXCEPT !.stage = "rejected", !.rejections = @ + 1]
  ELSE [sendChangedFiles(p, repository, repo) EXCEPT !.stage = "done"]

\* The webview posts stageFile or unstageFile for a listed file.
PanelStageFile ==
  /\ panel.currentPanel # 0
  /\ panel.stage # "await"
  /\ panel.requests < MaxRequests
  /\ \E op \in {"stageFiles", "unstageFiles"}, f \in ChangedFiles :
       LET r == stageFilesEnter(Idle, op, f, bound)
           p == [panel EXCEPT !.requests = @ + 1, !.stage = "await"]
       IN /\ inv' = [inv EXCEPT ![2] = r]
          /\ panel' = IF r.pc = "done" THEN stageFileSettled(p, r, bound, Repo) ELSE p
  /\ UNCHANGED <<bound, workingTree, index, history, query, webview, server>>

\* await this._gitService.stageFiles / unstageFiles settles.
PanelStageSettled ==
  /\ panel.stage = "await"
  /\ inv[2].pc = "done"
  /\ panel' = stageFileSettled(panel, inv[2], bound, Repo)
  /\ UNCHANGED <<bound, workingTree, index, history, inv, query, webview, server>>

\* The gittoys.bulkCommit command.
CreateOrShow ==
  /\ panel.opens < MaxOpens
  /\ panel' = createOrShow(panel, bound, Repo)
  /\ UNCHANGED <<bound, workingTree, index, history, inv, query, webview, server>>

\* The user closes the panel: onDidDispose calls dispose.
ClosePanel ==
  /\ panel.currentPanel # 0
  /\ panel' = dispose(panel)
  /\ UNCHANGED <<bound, workingTree, index, history, inv, query, webview, server>>

\* ------------------------------------------------------------------ spec
Init ==
  /\ bound \in BOOLEAN
  /\ workingTree \in SUBSET Files
  /\ index \in SUBSET (StagedAtStart \ workingTree)
  /\ history \in InitialHistories
  /\ inv = [h \in Invocations |-> Idle]
  /\ query = NoQuery
  /\ panel = NoPanel
  /\ webview = NoWebview
  /\ server = NoServer

Next ==
  \/ \E h \in Invocations : BulkCommitCall(h)
  \/ \E h \in Invocations : BulkCommitAdd(h)
  \/ \E h \in Invocations : BulkCommitCommit(h)
  \/ \E h \in Invocations : StageFileCall(h)
  \/ \E h \in Invocations : StageFileAdd(h)
  \/ \E h \in Invocations : UnstageFileCall(h)
  \/ \E h \in Invocations : UnstageFileRevert(h)
  \/ \E h \in Invocations : UndoCall(h)
  \/ \E h \in Invocations : UndoLog(h)
  \/ \E h \in Invocations : UndoReset(h)

Spec == Init /\ [][Next]_vars

\* One commitFiles request to an open panel; every listed path has a pending
\* change.
PanelInit ==
  /\ bound \in BOOLEAN
  /\ workingTree = {PanelPaths[k] : k \in 1..MaxCommits}
  /\ index = {}
  /\ history = <<>>
  /\ inv = [h \in Invocations |-> Idle]
  /\ query = NoQuery
  /\ webview = NoWebview
  /\ server = NoServer
  /\ \E config \in Configurations :
       panel = [NoPanel EXCEPT !.currentPanel = 1, !.created = 1, !.live = {1},
                               !.opens = 1, !.config = config]

PanelNext ==
  \/ PanelCommitFiles
  \/ PanelConfirm
  \/ \E h \in Invocations : BulkCommitAdd(h)
  \/ \E h \in Invocations : BulkCommitCommit(h)
  \/ PanelBatchSettled
  \/ PanelPush
  \/ PanelRefresh

PanelSpec == PanelInit /\ [][PanelNext]_vars

\* The panel is opened and closed over a repository nothing else touches.
LifecycleNext ==
  \/ CreateOrShow
  \/ ClosePanel

LifecycleSpec == Init /\ [][LifecycleNext]_vars

\* A short commitFiles request while repository-change events arrive.
RefreshingNext ==
  \/ PanelCommitFiles /\ Len(panel'.commits) <= MaxBusyCommits
  \/ PanelConfirm
  \/ BulkCommitAdd(1)
  \/ BulkCommitCommit(1)
  \/ PanelBatchSettled
  \/ PanelPush
  \/ PanelRefresh
  \/ RepositoryChanged

\* Every step of a handler moves its position or that of the batch.
position == <<inv, panel.pc>>

\* The awaited calls of the handlers return and their continuations run.
HandlersContinue ==
  /\ WF_position(PanelConfirm)
  /\ WF_position(BulkCommitAdd(1))
  /\ WF_position(BulkCommitCommit(1))
  /\ WF_position(PanelBatchSettled)
  /\ WF_position(PanelPush)
  /\ WF_position(PanelRefresh)

RefreshingSpec == PanelInit /\ [][RefreshingNext]_vars /\ HandlersContinue

\* The same, and the user may close the panel at any moment.
ClosingNext ==
  \/ RefreshingNext
  \/ ClosePanel

ClosingSpec == PanelInit /\ [][ClosingNext]_vars

\* stageFile and unstageFile requests to an open panel.
StageInit ==
  /\ bound \in BOOLEAN
  /\ workingTree = {"a.txt", "c.txt"}
  /\ index = {"b.txt"}
  /\ history = <<>>
  /\ inv = [h \in Invocations |-> Idle]
  /\ query = NoQuery
  /\ webview = NoWebview
  /\ server = NoServer
  /\ panel = [NoPanel EXCEPT !.currentPanel = 1, !.created = 1, !.live = {1},
                             !.opens = 1]

StageNext ==
  \/ PanelStageFile
  \/ StageFileAdd(2)
  \/ UnstageFileRevert(2)
  \/ PanelStageSettled

StageSpec == StageInit /\ [][StageNext]_vars

\* The webview alone: the messages it receives and the user's input.
WebviewNext ==
  \/ WebviewChangedFiles
  \/ WebviewCommitResult
  \/ WebviewCheckbox
  \/ WebviewInput

WebviewInit ==
  /\ bound = TRUE
  /\ workingTree = {}
  /\ index = {}
  /\ history = <<>>
  /\ inv = [h \in Invocations |-> Idle]
  /\ query = NoQuery
  /\ panel = NoPanel
  /\ webview = NoWebview
  /\ server = NoServer

WebviewSpec == WebviewInit /\ [][WebviewNext]_vars

\* The portable server: one commit request and any number of path requests.
ServerInit ==
  /\ bound = TRUE
  /\ workingTree = {}
  /\ index = {}
  /\ history = <<>>
  /\ inv = [h \in Invocations |-> Idle]
  /\ query = NoQuery
  /\ panel = NoPanel
  /\ webview = NoWebview
  /\ \E cwd \in ExistingPaths : server = [NoServer EXCEPT !.currentRepoPath = cwd]

ServerNext ==
  \/ PostCommit
  \/ ServerAdd
  \/ ServerCommit
  \/ PostPath

ServerSpec == ServerInit /\ [][ServerNext]_vars

\* Every pending add and commit of a batch eventually settles (resolves or
\* rejects).
BackendCallsReturn ==
  \A h \in Invocations : WF_vars(BulkCommitAdd(h)) /\ WF_vars(BulkCommitCommit(h))

\* The runs that start from a bound repository with nothing staged and no
\* commit yet.
FreshInit ==
  /\ Init
  /\ bound
  /\ index = {}
  /\ history = <<>>

\* The requests are bulk commits only.
BatchNext ==
  \/ \E h \in Invocations : BulkCommitCall(h)
  \/ \E h \in Invocations : BulkCommitAdd(h)
  \/ \E h \in Invocations : BulkCommitCommit(h)

\* Undo requests alone, overlapping ones included.
UndoNext ==
  \/ \E h \in Invocations : UndoCall(h)
  \/ \E h \in Invocations : UndoLog(h)
  \/ \E h \in Invocations : UndoReset(h)

UndoSpec == Init /\ [][UndoNext]_vars

\* Batches alone, on any repository.
BatchSpec == Init /\ [][BatchNext]_vars

FairSpec == FreshInit /\ [][BatchNext]_vars /\ BackendCallsReturn

\* ------------------------------------------------- GitService.convertStatus
ConflictStatuses ==
  {"ADDED_BY_US", "ADDED_BY_THEM", "DELETED_BY_US", "DELETED_BY_THEM",
   "BOTH_ADDED", "BOTH_DELETED", "BOTH_MODIFIED"}

\* The raw status codes of the git API.
Statuses ==
  {"INDEX_MODIFIED", "INDEX_ADDED", "INDEX_DELETED", "INDEX_RENAMED", "INDEX_COPIED",
   "MODIFIED", "DELETED", "UNTRACKED", "IGNORED", "INTENT_TO_ADD", "INTENT_TO_DELETE",
   "TYPE_CHANGE"} \cup ConflictStatuses

convertStatus(status) ==
  CASE status \in {"INDEX_MODIFIED", "MODIFIED"} -> "modified"
    [] status \in {"INDEX_ADDED", "UNTRACKED", "INTENT_TO_ADD"} -> "added"
    [] status \in {"INDEX_DELETED", "DELETED"} -> "deleted"
    [] status \in {"INDEX_RENAMED", "INDEX_COPIED"} -> "renamed"
    [] status \in ConflictStatuses -> "conflicted"
    [] OTHER -> "modified"

\* ----------------------------------------------- GitService.getChangedFiles
Change(path, status) == [path |-> path, status |-> status]

FileChange(path, status, staged) == [path |-> path, status |-> status, staged |-> staged]

\* changes.findIndex(c => c.path === path): the first match, 0 for none.
findIndex(changes, path) ==
  IF \E k \in 1..Len(changes) : changes[k].path = path
  THEN CHOOSE k \in 1..Len(changes) :
         /\ changes[k].path = path
         /\ \A j \in 1..(k - 1) : changes[j].path # path
  ELSE 0

\* The first loop: every working-tree change, unstaged.
workingTreePass(workingTreeChanges) ==
  [k \in 1..Len(workingTreeChanges) |->
     FileChange(workingTreeChanges[k].path,
                convertStatus(workingTreeChanges[k].status), FALSE)]

indexPassStep_AlwaysPush(changes, change) ==
  Append(changes, FileChange(change.path, convertStatus(change.status), TRUE))

indexPassStep_NoMark(changes, change) ==
  IF findIndex(changes, change.path) >= 1
  THEN changes
  ELSE Append(changes, FileChange(change.path, convertStatus(change.status), TRUE))

indexPassStep_Overwrite(changes, change) ==
  LET existingIndex == findIndex(changes, change.path)
  IN IF existingIndex >= 1
     THEN [changes EXCEPT ![existingIndex] =
             FileChange(change.path, convertStatus(change.status), TRUE)]
     ELSE Append(changes, FileChange(change.path, convertStatus(change.status), TRUE))

\* One round of the second loop: mark the listed file staged, or list it.
indexPassStep(changes, change) ==
  LET existingIndex == findIndex(changes, change.path)
  IN IF existingIndex >= 1
     THEN [changes EXCEPT ![existingIndex].staged = TRUE]
     ELSE Append(changes, FileChange(change.path, convertStatus(change.status), TRUE))

RECURSIVE indexPass(_, _, _)
indexPass(changes, indexChanges, n) ==
  IF n = 0 THEN changes
  ELSE indexPassStep(indexPass(changes, indexChanges, n - 1), indexChanges[n])

getChangedFiles(repository, workingTreeChanges, indexChanges) ==
  IF ~repository THEN <<>>
  ELSE indexPass(workingTreePass(workingTreeChanges), indexChanges, Len(indexChanges))

\* getChangesCount: the lengths of the two change lists and their sum.
getChangesCount(repository, workingTreeChanges, indexChanges) ==
  IF ~repository
  THEN [staged |-> 0, unstaged |-> 0, total |-> 0]
  ELSE [staged |-> Len(indexChanges), unstaged |-> Len(workingTreeChanges),
        total |-> Len(indexChanges) + Len(workingTreeChanges)]

\* ------------------------------------------------- GitService.getSyncStatus
\* x || 0, an absent count being the empty sequence.
OrZero(x) == IF x = <<>> \/ x = <<0>> THEN 0 ELSE x[1]

SyncStatus(ahead, behind) == [ahead |-> ahead, behind |-> behind]

getSyncStatus_Swapped(repository, HEAD) ==
  IF ~repository \/ HEAD = <<>>
  THEN <<>>
  ELSE <<SyncStatus(OrZero(HEAD[1].behind), OrZero(HEAD[1].ahead))>>

\* The value is the empty sequence for undefined.
getSyncStatus(repository, HEAD) ==
  IF ~repository \/ HEAD = <<>>
  THEN <<>>
  ELSE <<SyncStatus(OrZero(HEAD[1].ahead), OrZero(HEAD[1].behind))>>

\* ------------------------------------ BulkCommitApp.applyTemplateToSelected
\* Strings are sequences of characters.
Strings(n) == UNION {[1..k -> Letters] : k \in 0..n}

\* currentMessage.startsWith(template)
startsWith(str, prefix) ==
  Len(prefix) <= Len(str) /\ SubSeq(str, 1, Len(prefix)) = prefix

\* this.state.commitMessages.get(path) || '': no entry reads as ''.
currentMessageOf(stored) == IF stored = <<>> THEN <<>> ELSE stored[1]

applyTemplate_AlwaysPrepend(currentMessage, template) == template \o currentMessage

\* The message of one selected file after the template is applied.
applyTemplate(currentMessage, template) ==
  IF ~startsWith(currentMessage, template)
  THEN template \o currentMessage
  ELSE currentMessage

\* ------------------------------------------------------- synchronous reads
PathsIn(changes) == {changes[k].path : k \in 1..Len(changes)}

\* The change lists git reports: at most one entry for a path in each list.
ChangeLists ==
  UNION {{l \in [1..n -> {Change(f, st) : f \in Files, st \in ListedStatuses}] :
            \A j, k \in 1..n : l[j].path = l[k].path => j = k} : n \in 0..MaxChanges}

Counts == {<<>>} \cup {<<n>> : n \in 0..MaxAhead}

\* The current branch: none, one without upstream (no counts), or one that
\* tracks an upstream.
Heads ==
  {<<>>, <<[upstream |-> FALSE, ahead |-> <<>>, behind |-> <<>>]>>}
    \cup {<<[upstream |-> TRUE, ahead |-> a, behind |-> b]>> : a \in Counts, b \in Counts}

QueryInit ==
  /\ bound \in BOOLEAN
  /\ history = <<>>
  /\ panel = NoPanel
  /\ webview = NoWebview
  /\ server = NoServer
  /\ inv = [h \in Invocations |-> Idle]
  /\ \/ /\ \E wt \in ChangeLists, idx \in ChangeLists :
             /\ ~bound => wt = <<>> /\ idx = <<>>
             /\ query = [op |-> "getChangedFiles", pc |-> "called",
                         workingTreeChanges |-> wt, indexChanges |-> idx, value |-> <<>>]
             /\ workingTree = PathsIn(wt)
             /\ index = PathsIn(idx)
     \/ /\ \E wt \in ChangeLists, idx \in ChangeLists :
             /\ ~bound => wt = <<>> /\ idx = <<>>
             /\ query = [op |-> "getChangesCount", pc |-> "called",
                         workingTreeChanges |-> wt, indexChanges |-> idx, value |-> <<>>]
             /\ workingTree = PathsIn(wt)
             /\ index = PathsIn(idx)
     \/ /\ \E st \in Statuses :
             query = [op |-> "convertStatus", pc |-> "called", status |-> st, value |-> ""]
        /\ workingTree = {}
        /\ index = {}
     \/ /\ \E head \in Heads :
             /\ ~bound => head = <<>>
             /\ query = [op |-> "getSyncStatus", pc |-> "called", HEAD |-> head,
                         value |-> <<>>]
        /\ workingTree = {}
        /\ index = {}
     \/ /\ \E stored \in {<<>>} \cup {<<str>> : str \in Strings(MaxLen)},
             template \in Strings(MaxLen) :
             query = [op |-> "applyTemplate", pc |-> "called", stored |-> stored,
                      template |-> template, values |-> <<>>]
        /\ workingTree = {}
        /\ index = {}

GetChangedFiles ==
  /\ query.op = "getChangedFiles"
  /\ query.pc = "called"
  /\ query' = [query EXCEPT !.pc = "returned",
                 !.value = getChangedFiles(bound, query.workingTreeChanges,
                                           query.indexChanges)]
  /\ UNCHANGED <<bound, workingTree, index, history, inv, panel, webview, server>>

GetChangesCount ==
  /\ query.op = "getChangesCount"
  /\ query.pc = "called"
  /\ query' = [query EXCEPT !.pc = "returned",
                 !.value = getChangesCount(bound, query.workingTreeChanges,
                                           query.indexChanges)]
  /\ UNCHANGED <<bound, workingTree, index, history, inv, panel, webview, server>>

ConvertStatus ==
  /\ query.op = "convertStatus"
  /\ query.pc = "called"
  /\ query' = [query EXCEPT !.pc = "returned", !.value = convertStatus(query.status)]
  /\ UNCHANGED <<bound, workingTree, index, history, inv, panel, webview, server>>

GetSyncStatus ==
  /\ query.op = "getSyncStatus"
  /\ query.pc = "called"
  /\ query' = [query EXCEPT !.pc = "returned", !.value = getSyncStatus(bound, query.HEAD)]
  /\ UNCHANGED <<bound, workingTree, index, history, inv, panel, webview, server>>

\* The template is applied to the stored message, and once more to the
\* message that application left.
ApplyTemplate ==
  /\ query.op = "applyTemplate"
  /\ query.pc \in {"called", "once"}
  /\ LET currentMessage == IF query.pc = "called"
                           THEN currentMessageOf(query.stored)
                           ELSE query.values[Len(query.values)]
     IN query' = [query EXCEPT
                    !.pc = IF query.pc = "called" THEN "once" ELSE "twice",
                    !.values = Append(@, applyTemplate(currentMessage, query.template))]
  /\ UNCHANGED <<bound, workingTree, index, history, inv, panel, webview, server>>

QueryNext ==
  \/ GetChangedFiles
  \/ GetChangesCount
  \/ ConvertStatus
  \/ GetSyncStatus
  \/ ApplyTemplate

QuerySpec == QueryInit /\ [][QueryNext]_vars

\* ---------------------------------------------------------------- claims
IsBatch(h) == inv[h].op = "bulkCommit"

Returned(h) == IsBatch(h) /\ inv[h].pc = "done" /\ inv[h].outcome = "returned"

\* No other request was made in this run.
Lone(h) == \A g \in Invocations \ {h} : inv[g].pc = "idle"

TaskFiles(h) == {inv[h].tasks[k].filePath : k \in 1..Len(inv[h].tasks)}

PathsOf(results) == [k \in 1..Len(results) |-> results[k].filePath]

CallsOf(h, op, ok) ==
  {p \in 1..Len(inv[h].calls) : inv[h].calls[p].op = op /\ inv[h].calls[p].ok = ok}

\* The tasks of h whose add or commit call failed, and those whose commit
\* call succeeded.
FailedTasks(h) ==
  {inv[h].calls[p].task : p \in CallsOf(h, "add", FALSE) \cup CallsOf(h, "commit", FALSE)}

CommittedTasks(h) == {inv[h].calls[p].task : p \in CallsOf(h, "commit", TRUE)}

RECURSIVE Pick(_, _, _)
\* The tasks at the positions in K, in input order.
Pick(tasks, K, n) ==
  IF n = 0 THEN <<>>
  ELSE IF n \in K THEN Append(Pick(tasks, K, n - 1), tasks[n])
  ELSE Pick(tasks, K, n - 1)

TasksOf(results) ==
  [k \in 1..Len(results) |-> CommitTask(results[k].filePath, results[k].message)]

\* C1: once a repository is bound, the result of bulkCommit satisfies
\* successful.length + failed.length == tasks.length == totalCommits, for
\* every task list and every pattern of stage and commit failures.
C1_ResultCountsEveryTask ==
  \A h \in Invocations :
    Returned(h) =>
      /\ Len(inv[h].result.successful) + Len(inv[h].result.failed) = Len(inv[h].tasks)
      /\ Len(inv[h].tasks) = inv[h].result.totalCommits

C1_Witness ==
  \E h \in Invocations :
    /\ Returned(h)
    /\ Len(inv[h].tasks) = 3
    /\ Len(inv[h].result.successful) = 1
    /\ CallsOf(h, "add", FALSE) # {}
    /\ CallsOf(h, "commit", FALSE) # {}

\* The run of spec section 8: tasks a.txt, b.txt, c.txt and the one failure is
\* the staging of b.txt.
C2_Example(h) ==
  /\ Returned(h)
  /\ [k \in 1..Len(inv[h].tasks) |-> inv[h].tasks[k].filePath] = <<"a.txt", "b.txt", "c.txt">>
  /\ FailedTasks(h) = {2}
  /\ CallsOf(h, "commit", FALSE) = {}

\* C2: bulkCommit never aborts early: whatever stage or commit fails, every
\* task has been attempted (its file handed to add) when the batch returns;
\* for [a.txt, b.txt, c.txt] with a staging failure only on b.txt the result
\* is successful = [a.txt, c.txt], failed = [b.txt], totalCommits = 3.
C2_NeverAbortsEarly ==
  \A h \in Invocations :
    /\ Returned(h) =>
         \A k \in 1..Len(inv[h].tasks) :
           \E p \in 1..Len(inv[h].calls) :
             inv[h].calls[p].op = "add" /\ inv[h].calls[p].task = k
    /\ C2_Example(h) =>
         /\ PathsOf(inv[h].result.successful) = <<"a.txt", "c.txt">>
         /\ PathsOf(inv[h].result.failed) = <<"b.txt">>
         /\ inv[h].result.totalCommits = 3

C2_Witness == \E h \in Invocations : C2_Example(h)

\* C3: every commit that bulkCommit creates for a task holds changes of that
\* task's file only, also when no other request runs beside the batch.
C3_CommitHoldsOnlyTaskFile ==
  \A h \in Invocations :
    IsBatch(h) /\ Lone(h) =>
      \A p \in CallsOf(h, "commit", TRUE) :
        inv[h].calls[p].files \subseteq {inv[h].tasks[inv[h].calls[p].task].filePath}

\* C4: at most one bulkCommit, stageFiles, unstageFiles or undoLastCommit
\* invocation is in flight against the repository at a time.
C4_SingleFlight ==
  Cardinality({h \in Invocations : InFlight(h)}) <= 1

\* C5: bulkCommit handles the tasks strictly in input order, one backend call
\* at a time: the n-th add is for task n and comes after every call of the
\* tasks before it, a commit directly follows the successful add of the same
\* task, and successful and failed list their tasks in input order.
C5_TasksInInputOrder ==
  \A h \in Invocations :
    IsBatch(h) =>
      LET c == inv[h].calls
          r == inv[h]
          last == IF Len(c) = 0 THEN 0 ELSE c[Len(c)].task
      IN /\ \A p \in 1..Len(c) :
              \/ /\ c[p].op = "add"
                 /\ p = 1 => c[p].task = 1
                 /\ p > 1 => /\ c[p].task = c[p - 1].task + 1
                             /\ c[p - 1].op = "commit" \/ ~c[p - 1].ok
              \/ /\ c[p].op = "commit"
                 /\ p > 1
                 /\ c[p - 1].op = "add" /\ c[p - 1].ok /\ c[p - 1].task = c[p].task
         /\ r.pc = "add" => r.i = last + 1 /\ r.i <= Len(r.tasks)
         /\ r.pc = "commit" => r.i = last /\ c[Len(c)].op = "add" /\ c[Len(c)].ok
         /\ r.pc = "done" /\ r.outcome = "returned" => last = Len(r.tasks)
         /\ TasksOf(r.result.successful) = Pick(r.tasks, CommittedTasks(h), Len(r.tasks))
         /\ TasksOf(r.result.failed) = Pick(r.tasks, FailedTasks(h), Len(r.tasks))

C5_Witness ==
  \E h \in Invocations :
    /\ Returned(h)
    /\ Len(inv[h].result.successful) = 2
    /\ Len(inv[h].result.failed) = 1
    /\ inv[h].result.successful[1].filePath # inv[h].result.successful[2].filePath

\* C6: with no repository bound, bulkCommit fails at once with the
\* repository-not-found error: it makes no add or commit call, produces no
\* result, and the repository is left as it was.
C6_NoRepositoryNoAttempt ==
  /\ [](\A h \in Invocations :
          IsBatch(h) /\ ~bound =>
            /\ inv[h].pc = "done"
            /\ inv[h].outcome = "thrown"
            /\ inv[h].error = NoRepositoryFound
            /\ inv[h].calls = <<>>
            /\ inv[h].result = BulkCommitResult(<<>>))
  /\ [][(~bound /\ \E h \in Invocations : IsBatch(h)')
          => UNCHANGED <<workingTree, index, history>>]_vars

C6_Witness ==
  \E h \in Invocations :
    /\ IsBatch(h)
    /\ ~bound
    /\ Len(inv[h].tasks) = 3
    /\ inv[h].outcome = "thrown"
    /\ workingTree # {}

\* C7: once a repository is bound, bulkCommit never throws: it ends by
\* returning its result, and each stage or commit failure is one
\* CommitResult{success: false, error} in failed, for the task that failed.
C7_FailuresAreData ==
  \A h \in Invocations :
    IsBatch(h) /\ bound =>
      /\ inv[h].outcome # "thrown"
      /\ inv[h].pc = "done" => inv[h].outcome = "returned"
      /\ Len(inv[h].result.failed) = Cardinality(FailedTasks(h))
      /\ \A k \in 1..Len(inv[h].result.failed) :
           /\ inv[h].result.failed[k].success = FALSE
           /\ inv[h].result.failed[k].error \in {StageFailure, CommitFailure, NothingToCommit}
      /\ \A k \in 1..Len(inv[h].result.successful) :
           inv[h].result.successful[k].success = TRUE

C7_Witness ==
  \E h \in Invocations :
    /\ Returned(h)
    /\ bound
    /\ \E k \in 1..Len(inv[h].result.failed) : inv[h].result.failed[k].error = StageFailure
    /\ \E k \in 1..Len(inv[h].result.failed) : inv[h].result.failed[k].error = CommitFailure

\* C8: in every step of a batch, a task that succeeds adds exactly one commit
\* at the tip of the history, carrying that task's message; a step that
\* records a failure, or only stages, leaves the history alone.  The commit
\* of task k is therefore in the history when task k+1 starts.
C8_OneCommitPerSuccessfulTask ==
  [][\A h \in Invocations :
       (IsBatch(h) /\ inv'[h] # inv[h]) =>
         LET r == inv[h]
             n == Len(r.result.successful)
             n2 == Len(inv'[h].result.successful)
         IN /\ n2 \in {n, n + 1}
            /\ n2 = n => history' = history
            /\ n2 = n + 1 =>
                 /\ Len(history') = Len(history) + 1
                 /\ SubSeq(history', 1, Len(history)) = history
                 /\ history'[Len(history')].message = r.tasks[r.i].message
                 /\ inv'[h].result.successful[n2] = CommitResultOk(r.tasks[r.i])
                 /\ inv'[h].pc = "add" => inv'[h].i = r.i + 1]_vars

C8_Witness ==
  \E h \in Invocations :
    /\ IsBatch(h)
    /\ Lone(h)
    /\ inv[h].pc = "add"
    /\ inv[h].i = 3
    /\ Len(inv[h].result.successful) = 1
    /\ Len(inv[h].result.failed) = 1
    /\ Len(history) > 0
    /\ history[Len(history)].message = inv[h].result.successful[1].message

\* C9: bulkCommit unstages nothing on failure: a file that a task staged and
\* then failed to commit is still staged when the next task begins and when
\* the batch returns (no other request running beside the batch).
C9_FailedCommitStaysStaged ==
  \A h \in Invocations :
    IsBatch(h) /\ Lone(h) =>
      \A p \in CallsOf(h, "commit", FALSE) :
        LET k == inv[h].calls[p].task
        IN (/\ inv[h].calls[p - 1].files # {}
            /\ \/ inv[h].pc = "add" /\ inv[h].i = k + 1
               \/ inv[h].pc = "done")
           => inv[h].tasks[k].filePath \in index

\* C10: after bulkCommit returns, the staging area is as it was before the
\* batch apart from the committed changes: a file that is not among the tasks
\* is staged exactly if it was staged before the batch (no other request
\* running beside the batch).
C10_StagingAreaRestored ==
  \A h \in Invocations :
    Returned(h) /\ Lone(h) =>
      \A f \in Files \ TaskFiles(h) : (f \in index) <=> (f \in inv[h].before)

\* Every task of h was handed to add.
EveryTaskAttempted(h) ==
  \A k \in 1..Len(inv[h].tasks) :
    \E p \in 1..Len(inv[h].calls) :
      inv[h].calls[p].op = "add" /\ inv[h].calls[p].task = k

\* C11: a batch that has started runs to completion: as long as every add
\* and commit call settles, bulkCommit eventually returns a result, and in it
\* every task has been attempted; until then the batch stays in its loop.
C11_BatchRunsToCompletion ==
  \A h \in Invocations :
    /\ (IsBatch(h) /\ inv[h].pc \in {"add", "commit"})
         ~> (Returned(h) /\ EveryTaskAttempted(h))
    /\ [](IsBatch(h) /\ bound => inv[h].pc \in {"add", "commit", "done"})

C11_Witness ==
  \E h \in Invocations :
    /\ Returned(h)
    /\ EveryTaskAttempted(h)
    /\ Len(inv[h].tasks) = 3
    /\ Len(inv[h].result.failed) = 3

ChangedFilesReturned == query.op = "getChangedFiles" /\ query.pc = "returned"

\* The raw status a change list holds for a path.
StatusIn(changes, path) ==
  changes[CHOOSE k \in 1..Len(changes) : changes[k].path = path].status

\* C12: getChangedFiles returns exactly one FileChange per distinct path of
\* the working-tree and index change lists: no path appears twice.
C12_OneEntryPerPath ==
  ChangedFilesReturned /\ bound =>
    LET out == query.value
    IN /\ \A j, k \in 1..Len(out) : out[j].path = out[k].path => j = k
       /\ PathsIn(out) = PathsIn(query.workingTreeChanges) \cup PathsIn(query.indexChanges)

C12_Witness ==
  /\ ChangedFilesReturned
  /\ Len(query.value) = 3
  /\ Len(query.workingTreeChanges) = 2
  /\ Len(query.indexChanges) = 2

\* C13: an entry of the output has staged = true exactly if its path is in the
\* index change list, whether or not it is in the working-tree list too.
C13_StagedIffInIndex ==
  ChangedFilesReturned =>
    \A k \in 1..Len(query.value) :
      query.value[k].staged <=> (query.value[k].path \in PathsIn(query.indexChanges))

C13_Witness ==
  /\ ChangedFilesReturned
  /\ \E k \in 1..Len(query.value) :
       /\ query.value[k].staged
       /\ query.value[k].path \in PathsIn(query.workingTreeChanges)
  /\ \E k \in 1..Len(query.value) : ~query.value[k].staged

\* C14: a path in both lists is reported with the classification of its
\* working-tree entry, a path only in the index list with the classification
\* of its index entry.
C14_StatusFromWorkingTreeFirst ==
  ChangedFilesReturned =>
    \A k \in 1..Len(query.value) :
      LET path == query.value[k].path
      IN query.value[k].status =
           convertStatus(IF path \in PathsIn(query.workingTreeChanges)
                         THEN StatusIn(query.workingTreeChanges, path)
                         ELSE StatusIn(query.indexChanges, path))

C14_Witness ==
  /\ ChangedFilesReturned
  /\ \E k \in 1..Len(query.value) :
       LET path == query.value[k].path
       IN /\ path \in PathsIn(query.workingTreeChanges) \cap PathsIn(query.indexChanges)
          /\ StatusIn(query.workingTreeChanges, path) = "DELETED"
          /\ StatusIn(query.indexChanges, path) = "INDEX_ADDED"
  /\ \E k \in 1..Len(query.value) :
       query.value[k].path \notin PathsIn(query.workingTreeChanges)

\* C15: a conflict code on either entry of a path makes the reported status
\* 'conflicted', whatever the other entry says.
C15_ConflictTakesPriority ==
  ChangedFilesReturned =>
    \A k \in 1..Len(query.value) :
      LET path == query.value[k].path
      IN (\/ /\ path \in PathsIn(query.workingTreeChanges)
             /\ StatusIn(query.workingTreeChanges, path) \in ConflictStatuses
          \/ /\ path \in PathsIn(query.indexChanges)
             /\ StatusIn(query.indexChanges, path) \in ConflictStatuses)
         => query.value[k].status = "conflicted"

\* The mapping as the type documentation states it.
DocumentedStatus(status) ==
  CASE status \in {"INDEX_MODIFIED", "MODIFIED"} -> "modified"
    [] status \in {"INDEX_ADDED", "INTENT_TO_ADD"} -> "added"
    [] status = "INDEX_DELETED" -> "deleted"
    [] status = "INDEX_RENAMED" -> "renamed"
    [] status = "UNTRACKED" -> "untracked"
    [] OTHER -> "conflicted"

\* C16: the status mapping sends INDEX_MODIFIED and MODIFIED to 'modified',
\* INDEX_ADDED and INTENT_TO_ADD to 'added', INDEX_DELETED to 'deleted',
\* INDEX_RENAMED to 'renamed', UNTRACKED to 'untracked' and every other code
\* to 'conflicted'.
C16_DocumentedStatusMapping ==
  query.op = "convertStatus" /\ query.pc = "returned" =>
    query.value = DocumentedStatus(query.status)

SyncStatusReturned == query.op = "getSyncStatus" /\ query.pc = "returned"

\* C17: getSyncStatus returns undefined whenever the current branch has no
\* upstream, also when a repository and a HEAD branch exist.
C17_AbsentWithoutUpstream ==
  SyncStatusReturned /\ (query.HEAD = <<>> \/ ~query.HEAD[1].upstream) =>
    query.value = <<>>

\* C18: a sync status that is returned holds non-negative integers equal to
\* the tracking counts of the branch, 0 standing for a missing count; two
\* ahead and none behind gives {ahead: 2, behind: 0}.
C18_CountsFromTrackingData ==
  SyncStatusReturned /\ query.value # <<>> =>
    LET head == query.HEAD[1]
        status == query.value[1]
    IN /\ status.ahead \in Nat /\ status.behind \in Nat
       /\ status.ahead = (IF head.ahead = <<>> THEN 0 ELSE head.ahead[1])
       /\ status.behind = (IF head.behind = <<>> THEN 0 ELSE head.behind[1])
       /\ (head.ahead = <<2>> /\ head.behind = <<0>>) => status = SyncStatus(2, 0)

C18_Witness ==
  /\ SyncStatusReturned
  /\ query.HEAD # <<>>
  /\ query.HEAD[1].ahead = <<2>>
  /\ query.HEAD[1].behind = <<>>
  /\ query.value = <<SyncStatus(2, 0)>>

IsUndo(h) == inv[h].op = "undoLastCommit"

C20_SuccessfulUndoStepsBackOneCommit ==
  [][\A h \in Invocations :
       IsUndo(h) /\ inv[h].pc = "reset" /\ inv'[h].outcome = "success" =>
         /\ Len(history) > 0
         /\ history' = SubSeq(history, 1, Len(history) - 1)
         /\ workingTree' = workingTree
         /\ index' = index \cup history[Len(history)].files]_vars

\* C21: when undoLastCommit fails (no commits, or the reset is rejected) the
\* failure is reported as a value and no step of the call has changed the
\* history, the index or the working tree.
C21_FailedUndoChangesNothing ==
  [][\A h \in Invocations :
       /\ inv'[h].op = "undoLastCommit"
       /\ inv'[h] # inv[h]
       /\ inv'[h].outcome # "success"
       => /\ history' = history /\ index' = index /\ workingTree' = workingTree
          /\ inv'[h].pc = "done" => inv'[h].outcome = "failure" /\ inv'[h].error # ""]_vars

C21_Witness ==
  \E h \in Invocations :
    /\ IsUndo(h)
    /\ inv[h].pc = "done"
    /\ inv[h].outcome = "failure"
    /\ inv[h].error = ResetFailure
    /\ CallsOf(h, "reset", FALSE) # {}
    /\ Len(history) > 0

TemplateApplied == query.op = "applyTemplate" /\ query.pc \in {"once", "twice"}

\* C22: applying a template returns template + current unless current
\* already starts with the template, and then current unchanged; applying it
\* a second time changes nothing.
C22_ApplyTemplateIdempotent ==
  TemplateApplied =>
    LET current == IF query.stored = <<>> THEN <<>> ELSE query.stored[1]
        template == query.template
        once == query.values[1]
        prefixed == /\ Len(current) >= Len(template)
                    /\ \A k \in 1..Len(template) : current[k] = template[k]
    IN /\ prefixed => once = current
       /\ ~prefixed =>
            /\ Len(once) = Len(template) + Len(current)
            /\ \A k \in 1..Len(template) : once[k] = template[k]
            /\ \A k \in 1..Len(current) : once[Len(template) + k] = current[k]
       /\ query.pc = "twice" => query.values[2] = once

C22_Witness ==
  /\ query.op = "applyTemplate"
  /\ query.pc = "twice"
  /\ query.template = <<"f", "x">>
  /\ query.stored = << <<"f">> >>
  /\ query.values = << <<"f", "x", "f">>, <<"f", "x", "f">> >>

CallsFor(h, op, k) ==
  {p \in 1..Len(inv[h].calls) : inv[h].calls[p].op = op /\ inv[h].calls[p].task = k}

\* C28: bulkCommit stages each task exactly once and commits it at most once,
\* without retry: a task's commit is called only after its stage succeeded,
\* and a task is in successful exactly if its stage and its commit succeeded.
C28_NoRetry ==
  \A h \in Invocations :
    IsBatch(h) =>
      LET r == inv[h]
          staged == {k \in 1..Len(r.tasks) : \E p \in CallsFor(h, "add", k) : r.calls[p].ok}
          committed == {k \in staged : \E p \in CallsFor(h, "commit", k) : r.calls[p].ok}
      IN /\ \A k \in 1..Len(r.tasks) :
              /\ Cardinality(CallsFor(h, "add", k)) <= 1
              /\ Cardinality(CallsFor(h, "commit", k)) <= 1
              /\ CallsFor(h, "commit", k) # {} => k \in staged
              /\ Returned(h) => Cardinality(CallsFor(h, "add", k)) = 1
         /\ TasksOf(r.result.successful) = Pick(r.tasks, committed, Len(r.tasks))
         /\ Len(r.result.successful) = Cardinality(committed)

C28_Witness ==
  \E h \in Invocations :
    /\ Returned(h)
    /\ Len(inv[h].tasks) = 3
    /\ CallsOf(h, "add", FALSE) # {}
    /\ CallsOf(h, "commit", FALSE) # {}
    /\ Len(inv[h].result.successful) = 1
    /\ Len(inv[h].calls) = 5

\* The commits of the request whose message has a character other than a
\* blank.
WithMessage(commits) ==
  {k \in 1..Len(commits) : \E j \in 1..Len(commits[k].message) : commits[k].message[j] # Blank}

\* The positions in the webview's message stream that hold a message type.
Posted(type) == {k \in 1..Len(panel.posted) : panel.posted[k].type = type}

\* C23: every task handed to bulkCommit has a message that is not empty and
\* not blank: entries without one are filtered out before the call (of five
\* entries of which three have a message, three tasks are passed), and with
\* no entry left bulkCommit is not called.
C23_OnlyCommitsWithMessages ==
  /\ IsBatch(1) =>
       /\ Len(inv[1].tasks) > 0
       /\ inv[1].tasks = Pick(panel.commits, WithMessage(panel.commits), Len(panel.commits))
       /\ WithMessage(inv[1].tasks) = 1..Len(inv[1].tasks)
       /\ Len(panel.commits) = 5 /\ Cardinality(WithMessage(panel.commits)) = 3
            => Len(inv[1].tasks) = 3
  /\ panel.pc # "idle" /\ WithMessage(panel.commits) = {} => inv[1] = Idle

C23_Witness ==
  /\ IsBatch(1)
  /\ Len(panel.commits) = 5
  /\ WithMessage(panel.commits) = {1, 3, 4}
  /\ panel.commits[2].message = <<Blank>>
  /\ panel.commits[5].message = <<>>
  /\ Len(inv[1].tasks) = 3

\* C24: a push failure after a batch is reported on its own and touches
\* neither the commits made nor their reported result: the commitResult of
\* the batch is posted before the push is attempted and is the same whether
\* the push succeeds or fails.
C24_PushFailureStandsAlone ==
  [][panel.pc = "push" =>
       /\ Posted("commitResult") # {}
       /\ panel'.posted = panel.posted
       /\ history' = history
       /\ inv' = inv
       /\ panel'.pushes # panel.pushes =>
            /\ panel'.pc = "refresh"
            /\ ~panel'.pushes[Len(panel'.pushes)] =>
                 \E k \in 1..Len(panel'.shown) :
                   /\ k > Len(panel.shown)
                   /\ panel'.shown[k] = Notice("error", <<"Push failed", PushFailure>>)]_vars

C24_Witness ==
  /\ panel.pc = "done"
  /\ panel.pushes = <<FALSE>>
  /\ Posted("commitResult") # {}
  /\ Posted("error") = {}
  /\ Len(history) = 2
  /\ Len(inv[1].result.failed) = 1

\* C25: the commitResult sent to the webview satisfies successful + failed
\* == total, and errors holds one "path: error" string per failed task, in
\* task order.
C25_ResultInfoCounts ==
  \A k \in Posted("commitResult") :
    LET info == panel.posted[k].payload
        failedTasks == Pick(inv[1].tasks, FailedTasks(1), Len(inv[1].tasks))
    IN /\ info.successful + info.failed = info.total
       /\ info.total = Len(inv[1].tasks)
       /\ Len(info.errors) = info.failed
       /\ Len(info.errors) = Len(failedTasks)
       /\ \A j \in 1..Len(info.errors) :
            /\ Len(info.errors[j]) = 3
            /\ info.errors[j][1] = failedTasks[j].filePath
            /\ info.errors[j][2] = ": "
            /\ info.errors[j][3] = inv[1].result.failed[j].error

C25_Witness ==
  \E k \in Posted("commitResult") :
    /\ panel.posted[k].payload.successful = 1
    /\ panel.posted[k].payload.failed = 2
    /\ panel.posted[k].payload.errors =
         << <<"a.txt", ": ", StageFailure>>, <<"d.txt", ": ", CommitFailure>> >>

\* C26: after a batch has completed, with tasks that succeeded or failed, the
\* panel queries the changed files again and posts a fresh changedFiles
\* message, after the commitResult message of the batch.
C26_RefreshAfterCommitResult ==
  /\ panel.pc = "done" /\ Returned(1) =>
       \E k \in Posted("commitResult"), j \in Posted("changedFiles") :
         /\ k < j
         /\ panel.posted[j].payload.files = workingTree \cup index
         /\ panel.posted[j].payload.staged = index
  /\ \A j \in Posted("changedFiles") : \E k \in Posted("commitResult") : k < j

C26_Witness ==
  /\ panel.pc = "done"
  /\ Returned(1)
  /\ Len(inv[1].result.successful) = 0
  /\ Len(inv[1].result.failed) = 2
  /\ Posted("changedFiles") # {}

\* C27: at most one bulk commit panel exists at any time: opening the panel
\* while one exists reveals and refreshes it and creates none, and after the
\* panel is closed currentPanel is cleared and the next open creates a new
\* instance.
C27_OnePanel ==
  /\ [](/\ Cardinality(panel.live) <= 1
        /\ panel.currentPanel # 0 => panel.live = {panel.currentPanel}
        /\ panel.currentPanel = 0 => panel.live = {})
  /\ [][/\ panel'.opens # panel.opens /\ panel.currentPanel # 0 =>
             /\ panel'.created = panel.created
             /\ panel'.currentPanel = panel.currentPanel
             /\ Len(panel'.posted) > Len(panel.posted)
        /\ panel'.opens # panel.opens /\ panel.currentPanel = 0 =>
             /\ panel'.created = panel.created + 1
             /\ panel'.currentPanel = panel'.created
        /\ panel'.opens = panel.opens /\ panel' # panel =>
             panel'.currentPanel = 0 /\ panel'.live = {}]_vars

C27_Witness ==
  /\ panel.opens = 3
  /\ panel.created = 2
  /\ panel.currentPanel = 2
  /\ panel.live = {2}

\* C29: with confirmBeforeCommit enabled and the dialog not confirmed, a
\* commitFiles request makes no stage or commit call and leaves the
\* repository unchanged; handling a request never writes the configuration.
C29_NoConfirmNoCommit ==
  /\ [](panel.confirm = "dismissed" =>
          /\ panel.config.confirmBeforeCommit
          /\ panel.pc = "done"
          /\ inv[1] = Idle
          /\ history = <<>> /\ index = {}
          /\ workingTree = {PanelPaths[k] : k \in 1..MaxCommits})
  /\ [](panel.config.confirmBeforeCommit /\ IsBatch(1) => panel.confirm = "Commit")
  /\ [][panel'.config = panel.config]_vars

C29_Witness ==
  /\ panel.confirm = "dismissed"
  /\ panel.pc = "done"
  /\ Len(panel.commits) = 2
  /\ WithMessage(panel.commits) = {1, 2}
  /\ bound

\* C30: after a batch an automatic push is attempted exactly if
\* pushAfterCommit is enabled and at least one task succeeded; a batch whose
\* tasks all failed never triggers a push.
C30_PushOnlyAfterSuccess ==
  /\ Len(panel.pushes) <= 1
  /\ panel.pushes # <<>> =>
       /\ Returned(1)
       /\ panel.config.pushAfterCommit
       /\ Len(inv[1].result.successful) > 0
  /\ panel.pc \in {"refresh", "done"} /\ Returned(1) /\ panel.config.pushAfterCommit
       /\ Len(inv[1].result.successful) > 0
       => Len(panel.pushes) = 1

C30_Witness ==
  /\ panel.pc = "done"
  /\ Returned(1)
  /\ panel.config.pushAfterCommit
  /\ Len(inv[1].result.successful) = 0
  /\ Len(inv[1].result.failed) = 3
  /\ panel.pushes = <<>>

\* C31: after the webview handles a changedFiles message, every selected
\* path and every key of commitMessages is a path of the received list, and
\* the messages of the files that are still listed are unchanged.
C31_ChangedFilesPrunes ==
  /\ [](webview.last.type = "changedFiles" =>
          /\ webview.files = webview.last.files
          /\ webview.selectedFiles \subseteq webview.last.files
          /\ DOMAIN webview.commitMessages \subseteq webview.last.files)
  /\ [][webview'.last.type = "changedFiles" =>
          \A path \in webview'.last.files \cap DOMAIN webview.commitMessages :
             /\ path \in DOMAIN webview'.commitMessages
             /\ webview'.commitMessages[path] = webview.commitMessages[path]]_vars

C31_Witness ==
  /\ webview.last.type = "changedFiles"
  /\ webview.last.files = {"b.txt", "c.txt"}
  /\ DOMAIN webview.commitMessages = {"b.txt"}
  /\ webview.commitMessages["b.txt"] = "fix"
  /\ webview.selectedFiles = {"c.txt"}

\* C32: a file whose checkbox the user cleared and that is still in the list
\* stays deselected after any later changedFiles message.
C32_DeselectedStaysDeselected ==
  webview.deselected \cap webview.selectedFiles = {}

\* C33: a commitResult with at least one successful commit clears all
\* selections and all commit messages; a commitResult with no successful
\* commit leaves both unchanged.
C33_CommitResultClears ==
  [][webview'.last.type = "commitResult" /\ webview'.last # webview.last =>
       IF webview'.last.result.successful > 0
       THEN /\ webview'.selectedFiles = {}
            /\ webview'.commitMessages = NoMessages
       ELSE /\ webview'.selectedFiles = webview.selectedFiles
            /\ webview'.commitMessages = webview.commitMessages]_vars

C33_Witness ==
  /\ webview.last.type = "commitResult"
  /\ webview.last.result.successful = 0
  /\ webview.last.result.failed = 1
  /\ webview.selectedFiles = {"a.txt"}
  /\ DOMAIN webview.commitMessages = {"a.txt", "b.txt"}

\* C38: the total reported by getChangesCount is the number of entries
\* getChangedFiles returns for the same repository state, i.e. the number of
\* distinct changed paths.
C38_TotalCountsDistinctPaths ==
  query.op = "getChangesCount" /\ query.pc = "returned" =>
    query.value.total = Len(getChangedFiles(bound, query.workingTreeChanges,
                                            query.indexChanges))

\* C39: every git add and git commit of one POST /api/commit batch runs in
\* the repository directory that was current when the request began, also
\* when POST /api/path changes the current path during the batch.
C39_BatchStaysInOneRepository ==
  \A k \in 1..Len(server.commands) : server.commands[k].cwd = server.startPath

\* The loading messages posted so far.
LoadingPosts == {k \in 1..Len(panel.posted) : panel.posted[k].type = "loading"}

\* The last loading message posted is loading(true).
LoadingPending ==
  /\ LoadingPosts # {}
  /\ panel.posted[CHOOSE k \in LoadingPosts : \A j \in LoadingPosts : j <= k].payload

\* C34: every loading(true) message the panel posts is eventually followed
\* by a loading(false) message, on the success path and on the error paths
\* of _sendChangedFiles and _commitFiles; when a commitFiles handling has
\* completed, the last loading message is loading(false).
C34_LoadingEnds ==
  /\ LoadingPending ~> ~LoadingPending
  /\ [](panel.pc = "done" => ~LoadingPending)

C34_Witness ==
  /\ panel.pc = "done"
  /\ inv[1].outcome = "returned"
  /\ Len(inv[1].result.failed) = 1
  /\ panel.requests = 2
  /\ \E k \in 1..Len(panel.posted) : panel.posted[k] = Message("error", ReadFailure)
  /\ ~LoadingPending

\* C35: while a commitFiles batch is running (from its loading(true) until
\* bulkCommit has returned) the panel posts no loading(false) message, also
\* when repository-change events fire during the batch.
C35_NoLoadingFalseDuringBatch ==
  [][panel.pc = "bulkCommit" /\ inv[1].pc # "done" =>
       \A k \in (Len(panel.posted) + 1)..Len(panel'.posted) :
          panel'.posted[k] # Message("loading", FALSE)]_vars

\* C36: after the panel is disposed no further message is posted to its
\* webview, not even by a handler that was in flight when it was closed.
C36_NoPostAfterDispose ==
  [][panel.currentPanel = 0 => panel'.posted = panel.posted]_vars

\* C37: a failed stageFile or unstageFile request is answered with an
\* error(message) response, and its handler does not end in an unhandled
\* rejection.
C37_StageFailureReported ==
  /\ panel.rejections = 0
  /\ (inv[2].outcome = "thrown" /\ panel.stage # "await") =>
       \E k \in 1..Len(panel.posted) : panel.posted[k] = Message("error", inv[2].error)

====
